---- MODULE Spec2Model ----
(***************************************************************************)
(* Model of price_display.py: the quote fetcher, the tile renderer, the    *)
(* device sink and the driver loop of the Stream Deck BTC viewer.          *)
(*                                                                         *)
(* Text is a sequence of one-character strings, so that slicing, find,     *)
(* replace and split are computed as Python computes them.  A price is     *)
(* [whole, mills]: whole dollars and thousandths of a dollar, so that the  *)
(* rounding of the ",.2f" format is something the model performs.  A       *)
(* percent change is an integer number of thousandths of a percent.        *)
(***************************************************************************)
EXTENDS Integers, Sequences, FiniteSets, TLC

(* ------------------------------ bounds --------------------------------- *)

\* Largest number of integer digits of a fetched price.
MaxIntDigits == 7

\* Smallest and largest key count of the connected device.
MinKeyCount == 6

MaxKeyCount == 12

(* ------------------------- program constants --------------------------- *)

REFRESH_INTERVAL == 30

KEY_WIDTH == 72

KEY_HEIGHT == 72

\* time.sleep(60) on a rate-limited response.
RATE_LIMIT_BACKOFF == 60

\* response.status_code == 429
HTTP_RATE_LIMITED == 429

\* deck.set_key_image(10, key_img) in update_timer.
TIMER_KEY == 10

(* --------------------------- Python strings ---------------------------- *)

Min(a, b) == IF a < b THEN a ELSE b

Max(a, b) == IF a > b THEN a ELSE b

Abs(n) == IF n < 0 THEN -n ELSE n

\* s[a:b] with 0-based a, exclusive b, both clamped to the string.
Slice(s, a, b) == SubSeq(s, Max(a, 0) + 1, Min(b, Len(s)))

\* s[a:]
SliceFrom(s, a) == Slice(s, a, Len(s))

\* s.find(c): the 0-based index of the first c, or -1.
Find(s, c) ==
    IF \E i \in 1..Len(s) : s[i] = c
    THEN (CHOOSE i \in 1..Len(s) : s[i] = c /\ \A j \in 1..(i - 1) : s[j] # c) - 1
    ELSE -1

\* s.replace(c, "")
Remove(s, c) == SelectSeq(s, LAMBDA x : x # c)

\* s.split(c): the list of the parts of s between the occurrences of c.
RECURSIVE Split(_, _)
Split(s, c) ==
    LET i == Find(s, c)
    IN  IF i = -1 THEN << s >>
        ELSE << Slice(s, 0, i) >> \o Split(SliceFrom(s, i + 1), c)

DigitChar(d) == << "0", "1", "2", "3", "4", "5", "6", "7", "8", "9" >>[d + 1]

\* The decimal digits of a natural number.
RECURSIVE Digits(_)
Digits(n) == IF n < 10 THEN << DigitChar(n) >>
             ELSE Digits(n \div 10) \o << DigitChar(n % 10) >>

\* The "," option of the format mini-language: a separator every three
\* digits, counted from the right.
RECURSIVE GroupThousands(_)
GroupThousands(ds) ==
    IF Len(ds) <= 3 THEN ds
    ELSE GroupThousands(SubSeq(ds, 1, Len(ds) - 3)) \o << "," >>
         \o SubSeq(ds, Len(ds) - 2, Len(ds))

\* n / unit rounded to the nearest integer, ties to even (".2f" rounds the
\* exact value correctly).
RoundHalfEven(n, unit) ==
    LET q == n \div unit
        r == n % unit
    IN  IF 2 * r < unit THEN q
        ELSE IF 2 * r > unit THEN q + 1
        ELSE IF q % 2 = 0 THEN q ELSE q + 1

\* f"{price:,.2f}" for a non-negative price.
FormatPrice(price) ==
    LET cents == RoundHalfEven(price.mills, 10)
        whole == IF cents = 100 THEN price.whole + 1 ELSE price.whole
        frac  == IF cents = 100 THEN 0 ELSE cents
    IN  GroupThousands(Digits(whole)) \o << "." >>
        \o << DigitChar(frac \div 10), DigitChar(frac % 10) >>

\* f"{percent_change:+.2f}%" for a change given in thousandths of a percent.
FormatPercent(m) ==
    LET h == RoundHalfEven(Abs(m), 10)
    IN  << (IF m < 0 THEN "-" ELSE "+") >> \o Digits(h \div 100) \o << "." >>
        \o << DigitChar((h % 100) \div 10), DigitChar(h % 10) >> \o << "%" >>

(* ----------------------------- values ----------------------------------- *)

\* The value of a JSON field (or of the Python variable read from it): t is
\* "absent" (no such key), "null", "str" (any non-numeric value) or "num".
UsdValue(t, w, m) == [t |-> t, whole |-> w, mills |-> m]

ChangeValue(t, m) == [t |-> t, m |-> m]

\* Python's None, and the integer 0 of "return None, 0, 0".
NonePrice == UsdValue("none", 0, 0)

ZeroChange == ChangeValue("num", 0)

\* x is None, for the result of dict.get: a missing key and a JSON null.
IsNone(x) == x.t \in {"absent", "null", "none"}

(* --------------------------- fetch_price_and_trend --------------------- *)

\* "return None, 0, 0", after the sleeps in slept.
Unavailable(slept) ==
    [price |-> NonePrice, trend |-> 0, change |-> ZeroChange, slept |-> slept]

\* A classification with no Flat case.
TrendNonStrict(m) == IF m >= 0 THEN 1 ELSE -1

\* trend = 1 if change_24h > 0 else -1 if change_24h < 0 else 0
Trend(m) == IF m > 0 THEN 1 ELSE IF m < 0 THEN -1 ELSE 0

\* Lines 40-50: the body parsed and the two fields read.  kind is what the
\* body parses to and btc is the value under "bitcoin"; every exception is
\* caught by the "except Exception" clause of the function.
ParseQuote(response) ==
    IF response.kind = "notjson" THEN Unavailable(<< >>)        \* json() raises
    ELSE IF response.kind # "object" THEN Unavailable(<< >>)    \* no .get
    ELSE IF response.btc = "scalar" THEN Unavailable(<< >>)     \* no .get
    ELSE LET price == IF response.btc = "absent"
                      THEN UsdValue("absent", 0, 0) ELSE response.usd
             change_24h == IF response.btc = "absent"
                           THEN ChangeValue("absent", 0) ELSE response.chg
         IN  IF IsNone(price) \/ IsNone(change_24h) THEN Unavailable(<< >>)
             ELSE IF change_24h.t # "num" THEN Unavailable(<< >>) \* TypeError
             ELSE [price |-> price, trend |-> Trend(change_24h.m),
                   change |-> change_24h, slept |-> << >>]

\* A fetch that parses a rate-limited response like any other.
fetch_ignoring_rate_limit(response) ==
    IF response.conn = "error" THEN Unavailable(<< >>)
    ELSE ParseQuote(response)

\* The whole function on one HTTP outcome.  response.conn = "error" is
\* requests.get raising.
fetch_price_and_trend(response) ==
    IF response.conn = "error" THEN Unavailable(<< >>)
    ELSE IF response.status = HTTP_RATE_LIMITED
         THEN Unavailable(<< RATE_LIMIT_BACKOFF >>)
    ELSE ParseQuote(response)

(* ------------------------------ rendering ------------------------------ *)

BLACK == << 0, 0, 0 >>

WHITE == << 255, 255, 255 >>

GREEN == << 0, 255, 0 >>

RED == << 255, 0, 0 >>

\* Image.new("RGB", (w, h), (0, 0, 0)): a black canvas with nothing drawn.
NewImage(w, h) ==
    [width |-> w, height |-> h, bg |-> BLACK, text |-> << >>, fill |-> BLACK,
     font_size |-> 0, y_offset |-> 0, native |-> FALSE]

create_tile_image(text, color, font_size, key_width, key_height, y_offset) ==
    [NewImage(key_width, key_height) EXCEPT
        !.text = text, !.fill = color, !.font_size = font_size,
        !.y_offset = y_offset]

\* PILHelper.to_native_format: the same picture in the device's encoding.
to_native_format(img) == [img EXCEPT !.native = TRUE]

Arrow(trend) == IF trend > 0 THEN << "UP" >>
                ELSE IF trend < 0 THEN << "DOWN" >> ELSE << "-" >>

Color(trend) == IF trend > 0 THEN GREEN ELSE IF trend < 0 THEN RED ELSE WHITE

\* A tile 2 that always takes the no-separator branch.
Tile2TextAlwaysRest(integer_part) == SliceFrom(integer_part, 1) \o << "," >>

\* A tile 2 without the trailing placeholder.
Tile2TextNoPlaceholder(integer_part) ==
    LET comma_index == Find(integer_part, ",")
    IN  IF comma_index # -1 THEN Slice(integer_part, 1, comma_index + 1)
        ELSE SliceFrom(integer_part, 1)

\* tile2_text: up to and including the first separator, or the rest of the
\* integer part and a "," when there is no separator.
Tile2Text(integer_part) ==
    LET comma_index == Find(integer_part, ",")
    IN  IF comma_index # -1 THEN Slice(integer_part, 1, comma_index + 1)
        ELSE SliceFrom(integer_part, 1) \o << "," >>

\* A start index that counts the separator of tile 2 as a digit.
Tile3StartCountingComma(tile2_text) == 1 + Len(tile2_text)

\* tile3_start_index = 1 + len(tile2_text.replace(",", ""))
Tile3Start(tile2_text) == 1 + Len(Remove(tile2_text, ","))

\* The six tile texts of create_price_images.
TileTexts(price, trend, percent_change) ==
    LET price_str      == FormatPrice(price)
        parts          == Split(price_str, ".")
        integer_part   == parts[1]
        decimal_part   == parts[2]
        integer_digits == Remove(integer_part, ",")
        tile1_text     == << "$", integer_digits[1] >>
        tile2_text     == Tile2Text(integer_part)
        tile3_start_index == Tile3Start(tile2_text)
        tile3_text     == SliceFrom(integer_digits, tile3_start_index)
        tile4_text     == << "." >> \o decimal_part
        tile5_text     == FormatPercent(percent_change.m)
        tile6_text     == Arrow(trend)
    IN  << tile1_text, tile2_text, tile3_text, tile4_text, tile5_text,
           tile6_text >>

FontSizes == << 42, 42, 37, 39, 20, 48 >>

\* y_offset_for_price_and_arrow for every tile but the fifth.
YOffset(n) == IF n = 5 THEN 0 ELSE 6

create_price_images(price, trend, percent_change) ==
    LET tile_texts == TileTexts(price, trend, percent_change)
    IN  [n \in 1..6 |->
            create_tile_image(tile_texts[n], Color(trend), FontSizes[n],
                              KEY_WIDTH, KEY_HEIGHT, YOffset(n))]

\* The picture update_timer draws: f"{seconds_left}s" in white, size 20.
TimerImage(seconds_left) ==
    create_tile_image(Digits(seconds_left) \o << "s" >>, WHITE, 20,
                      KEY_WIDTH, KEY_HEIGHT, 0)

(* ------------------------------ device sink ---------------------------- *)

\* One entry of the log of a cycle: the fetch, a sleep or a key write.
FetchEvent == [op |-> "fetch", key |-> -1, secs |-> 0, img |-> NewImage(0, 0)]

SleepEvent(secs) ==
    [op |-> "sleep", key |-> -1, secs |-> secs, img |-> NewImage(0, 0)]

\* deck.set_key_image(key, img)
SetKeyImage(key, img) == [op |-> "set_key_image", key |-> key, secs |-> 0, img |-> img]

key_map == << 5, 6, 7, 8, 4, 9 >>

\* The writes of push_to_streamdeck_tile_images, in order.
PushWrites(tile_images) ==
    [n \in 1..Len(tile_images) |->
        SetKeyImage(key_map[n], to_native_format(tile_images[n]))]

\* A used set that forgets the key of the percent tile.
used_keys_without_4 == { 5, 6, 7, 8, 9, 10 }

used_keys == { 4, 5, 6, 7, 8, 9, 10 }

\* The writes of fill_unused_keys for the keys from..count-1, in order.
RECURSIVE FillWrites(_, _, _)
FillWrites(from, count, used) ==
    IF from >= count THEN << >>
    ELSE (IF from \notin used
          THEN << SetKeyImage(from, to_native_format(NewImage(KEY_WIDTH, KEY_HEIGHT))) >>
          ELSE << >>)
         \o FillWrites(from + 1, count, used)

\* A blanking loop that starts at key 1.
fill_unused_keys_from_1(count, used) == FillWrites(1, count, used)

fill_unused_keys(count, used) == FillWrites(0, count, used)

\* The write of update_timer.
update_timer(seconds_left) ==
    SetKeyImage(TIMER_KEY, to_native_format(TimerImage(seconds_left)))

(* ------------------------------- inputs -------------------------------- *)

RECURSIVE Pow10(_)
Pow10(n) == IF n = 0 THEN 1 ELSE 10 * Pow10(n - 1)

\* 1, 12, 123, 1234, ...: a number of n digits that are all different from
\* their neighbours.
RECURSIVE Prefix(_)
Prefix(n) == IF n = 0 THEN 0 ELSE 10 * Prefix(n - 1) + (n % 10)

\* The whole-dollar amounts: the smallest, the largest and a mixed number
\* of every length up to MaxIntDigits, with 0 and the 987 of the spec.
Wholes ==
    {0, 987} \cup UNION {{Pow10(n - 1), Pow10(n) - 1, Prefix(n)} : n \in 1..MaxIntDigits}

\* Thousandths: none, a tie of the rounding, and one that rounds up into
\* the next dollar.
Mills == {0, 125, 996}

\* The positive prices the API may quote, the 1234.56 and 987.65 of the
\* spec among them.
Prices == ({UsdValue("num", w, m) : w \in Wholes, m \in Mills}
           \cup {UsdValue("num", 1234, 560), UsdValue("num", 987, 650)})
          \ {UsdValue("num", 0, 0)}

\* 24h changes, in thousandths of a percent.
Changes == {ChangeValue("num", m) : m \in {-2500, -1, 0, 1, 1234}}

HttpResponse(conn, status, kind, btc, usd, chg) ==
    [conn |-> conn, status |-> status, kind |-> kind, btc |-> btc,
     usd |-> usd, chg |-> chg]

\* Before the first request.
NoResponse ==
    HttpResponse("none", 0, "notjson", "absent", UsdValue("absent", 0, 0),
                 ChangeValue("absent", 0))

SamplePrice == UsdValue("num", 65432, 100)

SampleChange == ChangeValue("num", 1234)

\* A 200 response carrying both fields as numbers.
GoodResponses ==
    {HttpResponse("ok", 200, "object", "object", p, c) : p \in Prices, c \in Changes}

\* Everything else the HTTP call can come back with.
BadResponses ==
    {HttpResponse("error", 0, "notjson", "absent", UsdValue("absent", 0, 0),
                  ChangeValue("absent", 0)),
     HttpResponse("ok", HTTP_RATE_LIMITED, "notjson", "absent",
                  UsdValue("absent", 0, 0), ChangeValue("absent", 0)),
     HttpResponse("ok", HTTP_RATE_LIMITED, "object", "object", SamplePrice, SampleChange),
     HttpResponse("ok", 200, "notjson", "absent", UsdValue("absent", 0, 0),
                  ChangeValue("absent", 0)),
     HttpResponse("ok", 500, "notjson", "absent", UsdValue("absent", 0, 0),
                  ChangeValue("absent", 0)),
     HttpResponse("ok", 200, "array", "absent", UsdValue("absent", 0, 0),
                  ChangeValue("absent", 0)),
     HttpResponse("ok", 200, "object", "absent", UsdValue("absent", 0, 0),
                  ChangeValue("absent", 0)),
     HttpResponse("ok", 200, "object", "scalar", UsdValue("absent", 0, 0),
                  ChangeValue("absent", 0))}
    \cup {HttpResponse("ok", 200, "object", "object", u, c) :
            u \in {UsdValue("absent", 0, 0), UsdValue("null", 0, 0),
                   UsdValue("str", 0, 0), SamplePrice},
            c \in {ChangeValue("absent", 0), ChangeValue("null", 0),
                   ChangeValue("str", 0)}}
    \cup {HttpResponse("ok", 200, "object", "object", u, SampleChange) :
            u \in {UsdValue("absent", 0, 0), UsdValue("null", 0, 0),
                   UsdValue("str", 0, 0)}}

Responses == GoodResponses \cup BadResponses

(* -------------------------------- state -------------------------------- *)

VARIABLES
    pc,              \* the statement of main about to run
    decks,           \* how many devices DeviceManager().enumerate() finds
    key_count,       \* deck.key_count() of the first device
    deck_open,       \* deck.open() was called and deck.close() was not
    response,        \* the outcome of the last requests.get
    price,           \* main's price
    trend,           \* main's trend
    percent_change,  \* main's percent_change
    i,               \* the countdown loop's variable
    events           \* the fetch, sleeps and key writes since the last fetch began

vars == << pc, decks, key_count, deck_open, response, price, trend,
           percent_change, i, events >>

Init ==
    /\ pc = "start"
    /\ decks \in {0, 1}
    /\ key_count \in MinKeyCount..MaxKeyCount
    /\ deck_open = FALSE
    /\ response = NoResponse
    /\ price = NonePrice
    /\ trend = 0
    /\ percent_change = ZeroChange
    /\ i = 0
    /\ events = << >>

\* main, lines 142-148: leave when no device is found, else open the first.
Startup ==
    /\ pc = "start"
    /\ IF decks = 0
       THEN pc' = "exit" /\ UNCHANGED deck_open
       ELSE pc' = "fetch" /\ deck_open' = TRUE
    /\ UNCHANGED << decks, key_count, response, price, trend, percent_change,
                    i, events >>

\* main, lines 151-152: the call of fetch_price_and_trend, the sleep inside
\* it included, and the test of its result.
Fetch ==
    /\ pc = "fetch"
    /\ \E r \in Responses :
         LET res == fetch_price_and_trend(r)
         IN  /\ response' = r
             /\ price' = res.price
             /\ trend' = res.trend
             /\ percent_change' = res.change
             /\ events' = << FetchEvent >>
                          \o [n \in 1..Len(res.slept) |-> SleepEvent(res.slept[n])]
             /\ pc' = IF res.price.t = "none" THEN "sleep_retry" ELSE "print"
    /\ UNCHANGED << decks, key_count, deck_open, i >>

\* main, lines 153-154: time.sleep(REFRESH_INTERVAL); continue
SleepRetry ==
    /\ pc = "sleep_retry"
    /\ events' = Append(events, SleepEvent(REFRESH_INTERVAL))
    /\ pc' = "fetch"
    /\ UNCHANGED << decks, key_count, deck_open, response, price, trend,
                    percent_change, i >>

\* main, line 156: the f-string formats price with ",.2f", which raises
\* ValueError for a value that is not a number; nothing in main catches it.
PrintQuote ==
    /\ pc = "print"
    /\ pc' = IF price.t = "num" THEN "render" ELSE "crashed"
    /\ UNCHANGED << decks, key_count, deck_open, response, price, trend,
                    percent_change, i, events >>

\* main, lines 158-159: render the six tiles and write them to their keys.
RenderAndPush ==
    /\ pc = "render"
    /\ events' = events \o PushWrites(create_price_images(price, trend, percent_change))
    /\ pc' = "fill"
    /\ UNCHANGED << decks, key_count, deck_open, response, price, trend,
                    percent_change, i >>

\* main, lines 161-164: blank the other keys and enter the countdown loop.
FillUnusedKeys ==
    /\ pc = "fill"
    /\ events' = events \o fill_unused_keys(key_count, used_keys)
    /\ IF REFRESH_INTERVAL > 0
       THEN pc' = "timer" /\ i' = REFRESH_INTERVAL
       ELSE pc' = "fetch" /\ UNCHANGED i
    /\ UNCHANGED << decks, key_count, deck_open, response, price, trend,
                    percent_change >>

\* main, line 165: update_timer(deck, i)
UpdateTimer ==
    /\ pc = "timer"
    /\ events' = Append(events, update_timer(i))
    /\ pc' = "tick"
    /\ UNCHANGED << decks, key_count, deck_open, response, price, trend,
                    percent_change, i >>

\* A countdown that runs down to 0.
TimerSleepToZero ==
    /\ pc = "tick"
    /\ events' = Append(events, SleepEvent(1))
    /\ IF i - 1 >= 0
       THEN pc' = "timer" /\ i' = i - 1
       ELSE pc' = "fetch" /\ UNCHANGED i
    /\ UNCHANGED << decks, key_count, deck_open, response, price, trend,
                    percent_change >>

\* main, lines 166 and 164: time.sleep(1), then the next value of
\* range(REFRESH_INTERVAL, 0, -1) or the end of the loop.
TimerSleep ==
    /\ pc = "tick"
    /\ events' = Append(events, SleepEvent(1))
    /\ IF i - 1 > 0
       THEN pc' = "timer" /\ i' = i - 1
       ELSE pc' = "fetch" /\ UNCHANGED i
    /\ UNCHANGED << decks, key_count, deck_open, response, price, trend,
                    percent_change >>

\* The statements of the while loop of main.
Running == {"fetch", "sleep_retry", "print", "render", "fill", "timer", "tick"}

\* An external signal ends the process inside the loop.  main has no
\* try/finally and installs no handler, and deck.close() on line 168 follows
\* a "while True" without break, so no statement of main runs afterwards:
\* the process's variables are gone and the device is left as it was.
Terminate ==
    /\ pc \in Running
    /\ pc' = "terminated"
    /\ response' = NoResponse
    /\ price' = NonePrice
    /\ trend' = 0
    /\ percent_change' = ZeroChange
    /\ i' = 0
    /\ events' = << >>
    /\ UNCHANGED << decks, key_count, deck_open >>

Next ==
    \/ Startup
    \/ Fetch
    \/ SleepRetry
    \/ PrintQuote
    \/ RenderAndPush
    \/ FillUnusedKeys
    \/ UpdateTimer
    \/ TimerSleep
    \/ Terminate

Spec == Init /\ [][Next]_vars

(* ------------------------- reading the log ----------------------------- *)

IsWrite(e) == e.op = "set_key_image"

\* A write of the solid black bitmap of fill_unused_keys.
IsBlank(e) ==
    /\ IsWrite(e)
    /\ e.img.text = << >> /\ e.img.font_size = 0
    /\ e.img.bg = << 0, 0, 0 >> /\ e.img.fill = << 0, 0, 0 >>
    /\ e.img.width = KEY_WIDTH /\ e.img.height = KEY_HEIGHT

\* A write of a picture with text on it: a price tile or the countdown.
IsContent(e) == IsWrite(e) /\ e.img.font_size > 0

Written == {k \in 1..Len(events) : IsWrite(events[k])}

\* The six price tiles of this cycle are on the device.
Pushed == Len(events) >= 7 /\ \A k \in 2..7 : IsContent(events[k])

\* The text of the n-th price tile written in this cycle.
TileText(n) == events[1 + n].img.text

\* fill_unused_keys has run in this cycle.
Filled == Pushed /\ pc \in {"timer", "tick", "fetch"}

\* The countdown tile has been written in this cycle.
TimerShown == \E k \in Written : events[k].key = 10

DigitChars == {"0", "1", "2", "3", "4", "5", "6", "7", "8", "9"}

DigitsOf(s) == SelectSeq(s, LAMBDA c : c \in DigitChars)

\* The formatted price of the quote of this cycle, and its integer part.
PriceStr == FormatPrice(price)

IntegerPart == SubSeq(PriceStr, 1, Len(PriceStr) - 3)

IsPrice(w, m) == price = UsdValue("num", w, m)

(* -------------------------------- claims ------------------------------- *)

\* C1: for every positive price, the digit characters of tiles 1, 2, 3 and
\* 4, concatenated in that order, are the digit sequence of the formatted
\* price: no digit is lost, duplicated or reordered, whatever the number of
\* integer digits.
C1_DigitsPreserved ==
    Pushed =>
        DigitsOf(TileText(1) \o TileText(2) \o TileText(3) \o TileText(4))
            = DigitsOf(PriceStr)

\* C1 witness: the tiles of a price with two separators are on the device.
C1_Witness ==
    /\ pc = "fill"
    /\ Len(SelectSeq(PriceStr, LAMBDA c : c = ",")) = 2
    /\ price.mills = 996

\* C2 as stated: 1234.56 with trend Up gives "$1", "2,", "34", ".56", the
\* signed percent and the up-arrow.
C2_AsStated ==
    (Pushed /\ IsPrice(1234, 560) /\ trend = 1) =>
        /\ TileText(1) = << "$", "1" >>
        /\ TileText(2) = << "2", "," >>
        /\ TileText(3) = << "3", "4" >>
        /\ TileText(4) = << ".", "5", "6" >>

\* C2 amended: 1234.56 with trend Up gives "$1", ",", "234", ".56", then the
\* percent change with its sign, two decimals and "%", then the up-arrow.
C2_Amended ==
    (Pushed /\ IsPrice(1234, 560) /\ trend = 1) =>
        /\ TileText(1) = << "$", "1" >>
        /\ TileText(2) = << "," >>
        /\ TileText(3) = << "2", "3", "4" >>
        /\ TileText(4) = << ".", "5", "6" >>
        /\ LET t == TileText(5)
               n == Len(t)
           IN  /\ n >= 6
               /\ t[1] = "+"
               /\ t[n] = "%"
               /\ t[n - 3] = "."
               /\ \A k \in (2..(n - 1)) \ {n - 3} : t[k] \in DigitChars
               /\ (response.chg.m = 1234 => t = << "+", "1", ".", "2", "3", "%" >>)
        /\ TileText(6) = << "UP" >>
        /\ \A n \in 1..6 : events[1 + n].key = << 5, 6, 7, 8, 4, 9 >>[n]

\* C2 witness: the tiles of 1234.56 with a rising trend are on the device.
C2_Witness == Pushed /\ IsPrice(1234, 560) /\ trend = 1 /\ response.chg.m = 1234

\* C3: on an HTTP 429 the fetch returns unavailable, the 60-second sleep is
\* invoked exactly once, and the loop goes to the next fetch with no key
\* write in that cycle.
C3_RateLimited ==
    (response.conn = "ok" /\ response.status = 429) =>
        /\ price = NonePrice
        /\ pc \in {"sleep_retry", "fetch"}
        /\ Cardinality({k \in 1..Len(events) :
                            events[k].op = "sleep" /\ events[k].secs = 60}) = 1
        /\ Written = {}

\* C3 witness: a rate-limited cycle has ended and the next fetch is due.
C3_Witness ==
    /\ response.status = 429 /\ response.kind = "object"
    /\ pc = "fetch" /\ Len(events) = 3

\* A 200 response whose body carries both fields as numbers.
WellFormed(r) ==
    /\ r.conn = "ok" /\ r.kind = "object" /\ r.btc = "object"
    /\ r.usd.t = "num" /\ r.chg.t = "num"

\* C4: for every outcome of the HTTP call other than a well-formed quote
\* the fetch yields unavailable, and the driver loop does not end by an
\* error raised from the fetched data.
C4_FetchErrorsAbsorbed ==
    (pc \notin {"start", "exit", "terminated"} /\ response.conn # "none"
     /\ ~WellFormed(response)) =>
        price = NonePrice /\ pc # "crashed"

\* Every key write of the cycle addresses a key of the device.
WritesInRange == \A k \in Written : events[k].key \in 0..(key_count - 1)

\* After fill_unused_keys every key of the device outside {4,...,10} has
\* received the black bitmap.
OthersBlanked ==
    Filled =>
        \A key \in (0..(key_count - 1)) \ {4, 5, 6, 7, 8, 9, 10} :
            \E k \in Written : events[k].key = key /\ IsBlank(events[k])

\* C5 as stated: for every key count >= 7 the other keys are blanked and
\* every write of the cycle addresses an existing key.
C5_AsStated == key_count >= 7 => (OthersBlanked /\ WritesInRange)

\* C5 amended: for every key count >= 7 the keys outside the used set are
\* blanked after the push; every write of the cycle addresses an existing
\* key when the device has at least 11 keys.
C5_Amended ==
    /\ key_count >= 7 => OthersBlanked
    /\ key_count >= 11 => WritesInRange

\* C5 witness: a device of 11 or more keys after blanking and a countdown
\* write.
C5_Witness == key_count >= 11 /\ Filled /\ TimerShown /\ pc = "tick"

\* C6: when the integer part has no separator, tile 1 is "$" and the first
\* digit, tile 2 the remaining digits and one ",", and tile 3 is empty;
\* 987.65 gives "$9", "87,", "".
C6_NoSeparator ==
    (Pushed /\ \A k \in 1..Len(IntegerPart) : IntegerPart[k] # ",") =>
        /\ Len(IntegerPart) \in 1..3
        /\ TileText(1) = << "$", IntegerPart[1] >>
        /\ TileText(2) = Tail(IntegerPart) \o << "," >>
        /\ TileText(3) = << >>
        /\ (IsPrice(987, 650) =>
                /\ TileText(1) = << "$", "9" >>
                /\ TileText(2) = << "8", "7", "," >>)

\* C6 witness: the tiles of 987.65 are on the device.
C6_Witness == Pushed /\ IsPrice(987, 650) /\ pc = "fill"

\* C7: no terminated state is reachable in which the device is still open.
C7_ClosedOnTermination == pc = "terminated" => ~deck_open

\* C8: the trend of a fetched quote is Up exactly when the change is
\* positive, Down exactly when negative, Flat exactly when zero; tile 6 is
\* the matching glyph and all six tiles have the matching colour.
C8_TrendAndColour ==
    /\ (pc \in Running /\ price.t = "num") =>
        /\ trend \in {-1, 0, 1}
        /\ (trend = 1 <=> response.chg.m > 0)
        /\ (trend = -1 <=> response.chg.m < 0)
        /\ (trend = 0 <=> response.chg.m = 0)
    /\ Pushed =>
        /\ (trend = 1 =>
                /\ TileText(6) = << "UP" >>
                /\ \A n \in 1..6 : events[1 + n].img.fill = << 0, 255, 0 >>)
        /\ (trend = -1 =>
                /\ TileText(6) = << "DOWN" >>
                /\ \A n \in 1..6 : events[1 + n].img.fill = << 255, 0, 0 >>)
        /\ (trend = 0 =>
                /\ TileText(6) = << "-" >>
                /\ \A n \in 1..6 : events[1 + n].img.fill = << 255, 255, 255 >>)

\* C8 witness: a frame for a change of exactly zero is on the device.
C8_Witness == Pushed /\ response.chg.m = 0 /\ trend = 0

\* The number of black bitmaps written in this cycle.
Blanks == Cardinality({k \in Written : IsBlank(events[k])})

\* C9: in a cycle whose fetch succeeds the log is the fetch, the six price
\* tiles, the black bitmaps, then the countdown REFRESH_INTERVAL, ..., 1,
\* each value written once and followed by a one-second sleep; 0 is never
\* shown, no fetch happens inside, and the next fetch is due only after the
\* sleep that follows 1.
C9_CycleOrder ==
    (pc \in Running /\ price.t = "num") =>
        LET n    == Len(events)
            base == 7 + Blanks
        IN  /\ n >= 1 /\ events[1].op = "fetch"
            /\ \A k \in 2..n : events[k].op # "fetch"
            /\ \A k \in 2..Min(n, 7) :
                  IsContent(events[k]) /\ events[k].key # 10
            /\ \A k \in 8..Min(n, base) : IsBlank(events[k])
            /\ n <= base + 2 * REFRESH_INTERVAL
            /\ \A k \in (base + 1)..n :
                  LET j == k - base
                      v == REFRESH_INTERVAL - ((j - 1) \div 2)
                  IN  IF j % 2 = 1
                      THEN /\ IsContent(events[k]) /\ events[k].key = 10
                           /\ v >= 1
                           /\ events[k].img.text = Digits(v) \o << "s" >>
                      ELSE events[k].op = "sleep" /\ events[k].secs = 1
            /\ (pc = "fetch" => n = base + 2 * REFRESH_INTERVAL)
            /\ (n > base => Blanks = Cardinality((0..(key_count - 1)) \ used_keys))

\* C9 witness: a successful cycle has run to its end.
C9_Witness ==
    /\ pc = "fetch" /\ price.t = "num"
    /\ Len(events) = 7 + Blanks + 2 * REFRESH_INTERVAL
    /\ events[Len(events) - 1].img.text = << "1", "s" >>

ContentKeys == {events[k].key : k \in {j \in Written : IsContent(events[j])}}

BlankKeys == {events[k].key : k \in {j \in Written : IsBlank(events[j])}}

\* C10: in a successful cycle on a device with at least 11 keys the six
\* tiles go to six different keys, none of them key 10, the keys with
\* content are exactly the used set, no key gets both content and a black
\* bitmap, and every key of the device is written.
C10_KeyPartition ==
    (key_count >= 11 /\ Filled /\ TimerShown) =>
        /\ Cardinality({events[1 + n].key : n \in 1..6}) = 6
        /\ 10 \notin {events[1 + n].key : n \in 1..6}
        /\ ContentKeys = used_keys
        /\ ContentKeys \cap BlankKeys = {}
        /\ ContentKeys \cup BlankKeys = 0..(key_count - 1)

\* C10 witness: the first countdown write of a cycle on a 12-key device.
C10_Witness ==
    key_count >= 11 /\ Filled /\ TimerShown /\ pc = "tick" /\ i = REFRESH_INTERVAL

====
